---- MODULE Spec2Model ----
(***************************************************************************)
(* A model of the CBM 8032 serial receiver (src/src/lib/serial.rs) and of  *)
(* the rate tracker it samples (src/src/lib/fps.rs).                       *)
(*                                                                         *)
(* The frame geometry is scaled: the source has DATA_PER_BUFFER = 40 and   *)
(* TOTAL_BUFFERS_PER_FRAME = 51, and writes the derived numbers as         *)
(* literals (41 = DATA_PER_BUFFER + 1, 52 = TOTAL_BUFFERS_PER_FRAME + 1,   *)
(* 2000 = 40 * 50).  The model keeps every one of these relations and      *)
(* takes the two base numbers small, so that TLC can enumerate the byte    *)
(* streams.                                                                *)
(***************************************************************************)
EXTENDS Integers, Sequences, FiniteSets, TLC

\* serial.rs:11, scaled from 40: payload bytes per sub-buffer.
DATA_PER_BUFFER == 2

\* serial.rs:12, scaled from 51: sub-buffers per frame, the mode one included.
TOTAL_BUFFERS_PER_FRAME == 3

\* vis.rs:21, CHARS_PER_LINE * DATA_LINES = 2000 = 40 * (51 - 1).
CBM_8032_FRAME_DATA_LEN == DATA_PER_BUFFER * (TOTAL_BUFFERS_PER_FRAME - 1)

\* serial.rs:170, the literal 41: zero bytes that end the zero count.
ZEROS_TO_SYNC == DATA_PER_BUFFER + 1

\* serial.rs:188, the literal 52: the buffer number that completes a screen.
BUFNUM_COMPLETE == TOTAL_BUFFERS_PER_FRAME + 1

\* A byte is a u8.
U8(n) == n % 256

Zeros(n) == [i \in 1..n |-> 0]

VARIABLES
    context,    \* ReceiverContext of the receiving thread
    rxpc,       \* where the receiving thread is in run
    fps,        \* the Fps of run
    chan,       \* the mpsc channel: messages sent and not yet received
    is_closed,  \* the AtomicBool shared by Handle and thread
    handle,     \* the Handle and where its owner is in a call on it
    gen,        \* the byte source: position in the stream being transmitted
    hist        \* what was transmitted, reported, returned and logged

vars == <<context, rxpc, fps, chan, is_closed, handle, gen, hist>>

\* The state of the thread, the channel and the Handle.
prog == <<rxpc, fps, chan, is_closed, handle>>

----------------------------------------------------------------------------
(* serial.rs *)

\* fn init_receiver_context. rx_buffer holds the bytes of the last read.
init_receiver_context ==
    [ rx_buffer |-> <<>>,
      rx_buffer_index |-> 0,
      rx_buffer_count |-> 0,
      bufnum |-> 0,
      count |-> 0,
      state |-> "CountingZeros",
      buffer |-> Zeros(DATA_PER_BUFFER),
      screen_buffer |-> Zeros(CBM_8032_FRAME_DATA_LEN),
      graphic |-> "Graphics" ]

\* fn byte_to_mode
byte_to_mode(byte) == IF byte = 0 THEN "Graphics" ELSE "Text"

\* Mutant: every sub-buffer is copied to the start of the screen buffer.
handle_received_buffer_at_start(ctx) ==
    IF ctx.bufnum > 0
    THEN IF ctx.bufnum < TOTAL_BUFFERS_PER_FRAME
         THEN [ctx EXCEPT !.screen_buffer =
                 [j \in 1..CBM_8032_FRAME_DATA_LEN |->
                    IF j <= DATA_PER_BUFFER THEN ctx.buffer[j]
                    ELSE ctx.screen_buffer[j]]]
         ELSE [ctx EXCEPT !.graphic = byte_to_mode(ctx.buffer[1])]
    ELSE ctx

\* Mutant: the slice is taken at bufnum, not at bufnum - 1.
handle_received_buffer_next_slice(ctx) ==
    IF ctx.bufnum > 0
    THEN IF ctx.bufnum < TOTAL_BUFFERS_PER_FRAME
         THEN LET screen_start == ctx.bufnum * DATA_PER_BUFFER
                  screen_end == screen_start + DATA_PER_BUFFER
              IN  [ctx EXCEPT !.screen_buffer =
                     [j \in 1..CBM_8032_FRAME_DATA_LEN |->
                        IF screen_start < j /\ j <= screen_end
                        THEN ctx.buffer[j - screen_start]
                        ELSE ctx.screen_buffer[j]]]
         ELSE [ctx EXCEPT !.graphic = byte_to_mode(ctx.buffer[1])]
    ELSE ctx

\* fn handle_received_buffer: the staged bytes go to their slice of the
\* screen buffer, or (last sub-buffer) their first byte sets the mode.
handle_received_buffer(ctx) ==
    IF ctx.bufnum > 0
    THEN IF ctx.bufnum < TOTAL_BUFFERS_PER_FRAME
         THEN LET bufidx == ctx.bufnum - 1
                  screen_start == bufidx * DATA_PER_BUFFER
                  screen_end == screen_start + DATA_PER_BUFFER
              IN  [ctx EXCEPT !.screen_buffer =
                     [j \in 1..CBM_8032_FRAME_DATA_LEN |->
                        IF screen_start < j /\ j <= screen_end
                        THEN ctx.buffer[j - screen_start]
                        ELSE ctx.screen_buffer[j]]]
         ELSE [ctx EXCEPT !.graphic = byte_to_mode(ctx.buffer[1])]
    ELSE ctx

\* The result of handle_received_byte: the context it leaves, the bool it
\* returns and whether it called handle_sync_loss.
Step(ctx, complete, loss) ==
    [ctx |-> ctx, screen_complete |-> complete, sync_loss |-> loss]

\* Mutant: the zero count ends one byte early, at DATA_PER_BUFFER zeros.
counting_zeros_early(ctx, byte) ==
    IF byte = 0
    THEN IF ctx.count + 1 = DATA_PER_BUFFER
         THEN Step([ctx EXCEPT !.state = "InSync", !.bufnum = 1, !.count = 0],
                   FALSE, FALSE)
         ELSE Step([ctx EXCEPT !.count = ctx.count + 1], FALSE, FALSE)
    ELSE Step([ctx EXCEPT !.count = 0], FALSE, FALSE)

\* Mutant: a non-zero byte does not restart the zero count.
counting_zeros_no_reset(ctx, byte) ==
    IF byte = 0
    THEN IF ctx.count + 1 = ZEROS_TO_SYNC
         THEN Step([ctx EXCEPT !.state = "InSync", !.bufnum = 1, !.count = 0],
                   FALSE, FALSE)
         ELSE Step([ctx EXCEPT !.count = ctx.count + 1], FALSE, FALSE)
    ELSE Step(ctx, FALSE, FALSE)

\* handle_received_byte, arm State::CountingZeros
counting_zeros(ctx, byte) ==
    IF byte = 0
    THEN IF ctx.count + 1 = ZEROS_TO_SYNC
         THEN Step([ctx EXCEPT !.state = "InSync", !.bufnum = 1, !.count = 0],
                   FALSE, FALSE)
         ELSE Step([ctx EXCEPT !.count = ctx.count + 1], FALSE, FALSE)
    ELSE Step([ctx EXCEPT !.count = 0], FALSE, FALSE)

\* Mutant: a wrong buffer number is logged and the receiver stays in sync.
sync_lost_stays(ctx) == Step([ctx EXCEPT !.count = 0], FALSE, TRUE)

\* Mutant: the staged bytes are copied before the loss is handled.
sync_lost_copies(ctx) ==
    Step([handle_received_buffer(ctx) EXCEPT !.state = "CountingZeros",
                                             !.count = 0], FALSE, TRUE)

\* Mutant: the zero count is not restarted at a sync loss.
sync_lost_keeps_count(ctx) ==
    Step([ctx EXCEPT !.state = "CountingZeros"], FALSE, TRUE)

\* handle_received_byte, the else arm of the buffer number test: the loss
\* is logged (handle_sync_loss) and the zero count starts again.
sync_lost(ctx) ==
    Step([ctx EXCEPT !.state = "CountingZeros", !.count = 0], FALSE, TRUE)

\* Mutant: the count is not reset by the sub-buffer that completes a screen.
buffer_accepted_keeps_count(ctx) ==
    LET c1 == handle_received_buffer(ctx)
        c2 == [c1 EXCEPT !.bufnum = c1.bufnum + 1]
    IN  IF c2.bufnum = BUFNUM_COMPLETE
        THEN Step([c2 EXCEPT !.state = "CountingZeros"], TRUE, FALSE)
        ELSE Step([c2 EXCEPT !.count = 0], FALSE, FALSE)

\* Mutant: after the mode sub-buffer the receiver stays in sync and expects
\* a mode sub-buffer again.
buffer_accepted_repeats_mode(ctx) ==
    LET c1 == handle_received_buffer(ctx)
        c2 == [c1 EXCEPT !.bufnum = c1.bufnum + 1, !.count = 0]
    IN  IF c2.bufnum = BUFNUM_COMPLETE
        THEN Step([c2 EXCEPT !.bufnum = TOTAL_BUFFERS_PER_FRAME], TRUE, FALSE)
        ELSE Step(c2, FALSE, FALSE)

\* Mutant: the screen is complete one sub-buffer later than the mode one.
buffer_accepted_completes_late(ctx) ==
    LET c1 == handle_received_buffer(ctx)
        c2 == [c1 EXCEPT !.bufnum = c1.bufnum + 1, !.count = 0]
    IN  IF c2.bufnum = BUFNUM_COMPLETE + 1
        THEN Step([c2 EXCEPT !.state = "CountingZeros"], TRUE, FALSE)
        ELSE Step(c2, FALSE, FALSE)

\* handle_received_byte, the arm of a matching buffer number
buffer_accepted(ctx) ==
    LET c1 == handle_received_buffer(ctx)
        c2 == [c1 EXCEPT !.bufnum = c1.bufnum + 1, !.count = 0]
    IN  IF c2.bufnum = BUFNUM_COMPLETE
        THEN Step([c2 EXCEPT !.state = "CountingZeros"], TRUE, FALSE)
        ELSE Step(c2, FALSE, FALSE)

\* handle_received_byte, arm State::InSync
in_sync(ctx, byte) ==
    IF ctx.count < DATA_PER_BUFFER
    THEN Step([ctx EXCEPT !.buffer[ctx.count + 1] = byte,
                          !.count = ctx.count + 1], FALSE, FALSE)
    ELSE IF byte = U8(ctx.bufnum)
         THEN buffer_accepted(ctx)
         ELSE sync_lost(ctx)

\* fn handle_received_byte
handle_received_byte(ctx, byte) ==
    IF ctx.state = "CountingZeros"
    THEN counting_zeros(ctx, byte)
    ELSE in_sync(ctx, byte)

\* vis::Cbm8032Frame::new(context.graphic, context.screen_buffer.clone()),
\* as run builds it when receive_screen returns.
NewFrame(ctx) == [mode |-> ctx.graphic, data |-> ctx.screen_buffer]

----------------------------------------------------------------------------
(* fps.rs.  A Duration is a whole number of half seconds.  An f64 is a      *)
(* binary floating point number, written as the fraction n/d in lowest     *)
(* terms that it equals, with 1/0 for +inf and 0/0 for NaN: every          *)
(* conversion, sum and quotient is rounded to the nearest number with      *)
(* MantissaBits significant bits (ties to even), and a division keeps what *)
(* f64 division does with a zero or missing operand.  The rates are never  *)
(* negative and far from the ends of the exponent range.                   *)

\* Fps::DEFAULT_WINDOW_LEN (fps.rs:24), scaled from 60.
DEFAULT_WINDOW_LEN == 2

\* Half seconds between two Instant::now() of successive samples of run.
Deltas == {1, 2}

RECURSIVE GCD(_, _)
GCD(a, b) == IF b = 0 THEN a ELSE GCD(b, a % b)

\* Significant bits of an f64, scaled from 53.
MantissaBits == 3

RECURSIVE Pow2(_)
Pow2(k) == IF k = 0 THEN 1 ELSE 2 * Pow2(k - 1)

\* The fraction n/d in lowest terms.
Ratio(n, d) == [n |-> n \div GCD(n, d), d |-> d \div GCD(n, d)]

RECURSIVE Normalize(_, _, _)
\* n/d = (s.n / s.d) * 2^(s.e) with s.n / s.d in [2^(bits-1), 2^bits).
Normalize(n, d, e) ==
    IF n >= d * Pow2(MantissaBits) THEN Normalize(n, 2 * d, e + 1)
    ELSE IF n < d * Pow2(MantissaBits - 1) THEN Normalize(2 * n, d, e - 1)
    ELSE [n |-> n, d |-> d, e |-> e]

\* The integer nearest to n/d, the even one of two equally near.
RoundHalfEven(n, d) ==
    LET q == n \div d
        r == n % d
    IN  IF 2 * r > d \/ (2 * r = d /\ q % 2 = 1) THEN q + 1 ELSE q

\* The f64 nearest to n/d, for n, d >= 0.
F64(n, d) ==
    IF d = 0 THEN [n |-> IF n = 0 THEN 0 ELSE 1, d |-> 0]
    ELSE IF n = 0 THEN [n |-> 0, d |-> 1]
    ELSE LET s == Normalize(n, d, 0)
             m == RoundHalfEven(s.n, s.d)
         IN  IF s.e >= 0 THEN Ratio(m * Pow2(s.e), 1)
             ELSE Ratio(m, Pow2(0 - s.e))

\* f64 division of non-negative values: x / 0 is +inf, 0 / 0 is NaN.
F64Div(x, y) == F64(x.n * y.d, x.d * y.n)

\* f64 addition of non-negative finite values.
F64Add(x, y) == F64(x.n * y.d + y.n * x.d, x.d * y.d)

F64Zero == F64(0, 1)

F64One == F64(1, 1)

\* Duration::secs of a Duration of d half seconds.
secs(d) == F64(d, 2)

RECURSIVE SumSecs(_)
\* window.iter().map(|d| d.secs()).sum::<f64>(): added one after the
\* other, front to back, to 0.0.
SumSecs(w) ==
    IF w = <<>> THEN F64Zero
    ELSE F64Add(SumSecs(SubSeq(w, 1, Len(w) - 1)), secs(w[Len(w)]))

MaxOf(w) == CHOOSE x \in {w[i] : i \in 1..Len(w)} :
                \A i \in 1..Len(w) : w[i] <= x

MinOf(w) == CHOOSE x \in {w[i] : i \in 1..Len(w)} :
                \A i \in 1..Len(w) : x <= w[i]

\* Inner::calc_avg
calc_avg(window) ==
    F64Div(F64One, F64Div(SumSecs(window), F64(Len(window), 1)))

\* Mutant: the minimum rate is taken from the shortest delta.
calc_min_of_shortest(window) ==
    F64Div(F64One, IF window = <<>> THEN F64Zero ELSE secs(MinOf(window)))

\* Inner::calc_min: window.iter().max() is None for an empty window.
calc_min(window) ==
    F64Div(F64One, IF window = <<>> THEN F64Zero ELSE secs(MaxOf(window)))

\* Inner::calc_max
calc_max(window) ==
    F64Div(F64One, IF window = <<>> THEN F64Zero ELSE secs(MinOf(window)))

\* Fps::with_window_len
with_window_len(window_len) ==
    [window_len |-> window_len, window |-> <<>>,
     avg |-> F64Zero, min |-> F64Zero, max |-> F64Zero]

\* Fps::default
FpsDefault == with_window_len(DEFAULT_WINDOW_LEN)

\* Mutant: a full window keeps its oldest deltas and drops the new one.
sample_keeps_oldest(f, delta) ==
    LET pushed == Append(f.window, delta)
        window == IF Len(pushed) > f.window_len
                  THEN SubSeq(pushed, 1, f.window_len)
                  ELSE pushed
    IN  [f EXCEPT !.window = window,
                  !.avg = calc_avg(window),
                  !.min = calc_min(window),
                  !.max = calc_max(window)]

\* Fps::sample, delta after the previous sample.
sample(f, delta) ==
    LET pushed == Append(f.window, delta)
        window == IF Len(pushed) > f.window_len
                  THEN SubSeq(pushed, Len(pushed) - f.window_len + 1,
                              Len(pushed))
                  ELSE pushed
    IN  [f EXCEPT !.window = window,
                  !.avg = calc_avg(window),
                  !.min = calc_min(window),
                  !.max = calc_max(window)]

----------------------------------------------------------------------------
(* serial.rs: Handle, channel and thread.                                  *)

\* FrameHz::default (derive(Default)): all 0.0.
FrameHzDefault == [avg |-> F64Zero, min |-> F64Zero, max |-> F64Zero]

\* run: FrameHz { avg, min, max } of the Fps just sampled.
FrameHzOf(f) == [avg |-> f.avg, min |-> f.min, max |-> f.max]

\* No message: try_iter().last() is None.
NoMsg == [id |-> 0]

\* No Handle: before spawn, or spawn returned Err.
NoHandle ==
    [pc |-> "none", last_recorded_frame_hz |-> FrameHzDefault,
     last |-> NoMsg, port_info |-> "none"]

\* The program before serial::spawn is called.
ProgInit ==
    /\ rxpc = "none"
    /\ fps = FpsDefault
    /\ chan = <<>>
    /\ is_closed = FALSE
    /\ handle = NoHandle

----------------------------------------------------------------------------
(* The byte streams the synchronizer is fed: transmissions of one screen.  *)
(* format "code" is the framing serial.rs decodes: ZEROS_TO_SYNC zero      *)
(* bytes, then per sub-buffer its payload followed by its number.          *)
(* format "spec" is the framing of the specification: DATA_PER_BUFFER zero *)
(* bytes, then per sub-buffer its number followed by its payload.          *)

Formats == {"code", "spec"}

\* Payload bytes a transmission may carry.
PayloadByte == {0, 1}

PreambleLen(format) ==
    IF format = "code" THEN ZEROS_TO_SYNC ELSE DATA_PER_BUFFER

TxLen(format) ==
    PreambleLen(format) + (DATA_PER_BUFFER + 1) * TOTAL_BUFFERS_PER_FRAME

\* What the byte at offset pos (from 0) of a transmission is: a preamble
\* zero, the number of sub-buffer k, or payload byte i (from 1) of it.
ByteAt(format, pos) ==
    IF pos < PreambleLen(format)
    THEN [kind |-> "zero", k |-> 0, i |-> 0]
    ELSE LET q == pos - PreambleLen(format)
             k == (q \div (DATA_PER_BUFFER + 1)) + 1
             r == q % (DATA_PER_BUFFER + 1)
         IN  IF format = "code"
             THEN IF r < DATA_PER_BUFFER
                  THEN [kind |-> "payload", k |-> k, i |-> r + 1]
                  ELSE [kind |-> "seq", k |-> k, i |-> 0]
             ELSE IF r = 0
                  THEN [kind |-> "seq", k |-> k, i |-> 0]
                  ELSE [kind |-> "payload", k |-> k, i |-> r]

\* Offset of the byte that carries the number of sub-buffer k.
SeqPos(format, k) ==
    PreambleLen(format) + (k - 1) * (DATA_PER_BUFFER + 1)
      + (IF format = "code" THEN DATA_PER_BUFFER ELSE 0)

\* Wrong values the number of sub-buffer k may be corrupted to.
WrongBytes(k) == (0 .. (TOTAL_BUFFERS_PER_FRAME + 1)) \ {k}

NoFrame == [mode |-> "None", data |-> <<>>]

\* Nothing transmitted yet in the current transmission.
FreshHist ==
    [sent |-> <<>>, nframes |-> 0, frame |-> NoFrame, losses |-> 0,
     done |-> <<>>]

\* "twice": a well-formed transmission, then the same bytes again.
\* "recover": a transmission with the number of sub-buffer gen.corrupt
\* replaced by gen.wrong, then a well-formed one.
StreamInit ==
    /\ ProgInit
    /\ context = init_receiver_context
    /\ hist = FreshHist
    /\ gen \in
         [format : Formats, scenario : {"twice"}, n : {1}, pos : {0},
          corrupt : {0}, wrong : {0}, fill : {0}]
         \cup
         { [format |-> f, scenario |-> "recover", n |-> 1, pos |-> 0,
            corrupt |-> k, wrong |-> w, fill |-> p] :
             f \in Formats, k \in 1..TOTAL_BUFFERS_PER_FRAME,
             w \in 0..(TOTAL_BUFFERS_PER_FRAME + 1), p \in PayloadByte }
    /\ gen.scenario = "recover" => gen.wrong \in WrongBytes(gen.corrupt)

\* The bytes the source may send next.
NextBytes ==
    LET at == ByteAt(gen.format, gen.pos)
    IN  CASE at.kind = "zero" -> {0}
          [] at.kind = "seq" ->
               IF gen.n = 1 /\ gen.corrupt = at.k THEN {gen.wrong} ELSE {at.k}
          [] OTHER ->
               IF gen.scenario = "twice" /\ gen.n = 2
               THEN {hist.done[1].sent[Len(hist.sent) + 1]}
               ELSE IF gen.scenario = "recover" /\ gen.n = 1
                    THEN {gen.fill}
                    ELSE PayloadByte

\* One byte of the stream goes through handle_received_byte.
FeedByte ==
    /\ gen.pos < TxLen(gen.format)
    /\ \E byte \in NextBytes :
         LET r == handle_received_byte(context, byte)
             payload == ByteAt(gen.format, gen.pos).kind = "payload"
         IN  /\ context' = r.ctx
             /\ hist' = [hist EXCEPT
                  !.sent = IF payload THEN Append(@, byte) ELSE @,
                  !.nframes = IF r.screen_complete THEN @ + 1 ELSE @,
                  !.frame = IF r.screen_complete THEN NewFrame(r.ctx) ELSE @,
                  !.losses = IF r.sync_loss THEN @ + 1 ELSE @]
    /\ gen' = [gen EXCEPT !.pos = @ + 1]
    /\ UNCHANGED prog

\* The first transmission is over and the second one starts.
EndTx ==
    /\ gen.pos = TxLen(gen.format)
    /\ gen.n = 1
    /\ gen' = [gen EXCEPT !.n = @ + 1, !.pos = 0]
    /\ hist' = [FreshHist EXCEPT !.done =
                  Append(hist.done, [sent |-> hist.sent,
                                     nframes |-> hist.nframes,
                                     frame |-> hist.frame])]
    /\ UNCHANGED <<context, prog>>

StreamNext == FeedByte \/ EndTx

SpecStream == StreamInit /\ [][StreamNext]_vars

\* The frame a well-formed transmission carries: the payloads of the data
\* sub-buffers in order, and the mode of the first byte of the last one.
FrameOf(sent) ==
    [mode |-> byte_to_mode(sent[CBM_8032_FRAME_DATA_LEN + 1]),
     data |-> SubSeq(sent, 1, CBM_8032_FRAME_DATA_LEN)]

TxOver == gen.pos = TxLen(gen.format)

----------------------------------------------------------------------------
----------------------------------------------------------------------------
----------------------------------------------------------------------------
----------------------------------------------------------------------------
----------------------------------------------------------------------------
(* Resynchronisation: some bytes of line noise bring the synchronizer to   *)
(* any of its states, and from then on the source sends well-formed        *)
(* transmissions in the code's framing, one after the other, for ever.     *)

\* Bytes of line noise before the well-formed transmissions start.
MaxNoise == 4

NoiseByte == {0, 1}

\* Payload bytes of the endless transmissions.
ResyncPayload == 0 .. (TOTAL_BUFFERS_PER_FRAME - 1)

ResyncInit ==
    /\ ProgInit
    /\ context = init_receiver_context
    /\ gen = [format |-> "code", scenario |-> "resync", n |-> 0, pos |-> 0,
              corrupt |-> 0, wrong |-> 0, fill |-> 0]
    /\ hist = [sent |-> <<>>, good |-> FALSE, any |-> FALSE,
               start |-> "none"]

\* A byte of noise goes through handle_received_byte.
FeedNoise ==
    /\ gen.n = 0
    /\ gen.pos < MaxNoise
    /\ \E byte \in NoiseByte :
         context' = handle_received_byte(context, byte).ctx
    /\ gen' = [gen EXCEPT !.pos = @ + 1]
    /\ UNCHANGED <<hist, prog>>

\* The noise is over: the first well-formed transmission starts.
\* hist.start: the state the synchronizer is in when it starts.
StartFrames ==
    /\ gen.n = 0
    /\ gen' = [gen EXCEPT !.n = 1, !.pos = 0]
    /\ hist' = [hist EXCEPT !.start = context.state]
    /\ UNCHANGED <<context, prog>>

\* One byte of a well-formed transmission goes through
\* handle_received_byte. hist.good: it completed a frame that is exactly
\* the frame of the transmission this byte ends.
FeedFrame ==
    /\ gen.n = 1
    /\ ~hist.good
    /\ LET at == ByteAt(gen.format, gen.pos)
           last == gen.pos + 1 = TxLen(gen.format)
       IN  \E byte \in (CASE at.kind = "zero" -> {0}
                          [] at.kind = "seq" -> {at.k}
                          [] OTHER -> ResyncPayload) :
             LET r == handle_received_byte(context, byte)
                 sent == IF at.kind = "payload"
                         THEN Append(hist.sent, byte) ELSE hist.sent
             IN  /\ context' = r.ctx
                 /\ hist' = [sent |-> IF last THEN <<>> ELSE sent,
                             good |-> /\ r.screen_complete
                                      /\ last
                                      /\ NewFrame(r.ctx) = FrameOf(sent),
                             any |-> hist.any \/ r.screen_complete,
                             start |-> hist.start]
                 /\ gen' = [gen EXCEPT !.pos = IF last THEN 0 ELSE @ + 1]
    /\ UNCHANGED prog

ResyncNext == FeedNoise \/ StartFrames \/ FeedFrame

\* The receiving loop processes every byte that arrives.
SpecResync ==
    ResyncInit /\ [][ResyncNext]_vars /\ WF_vars(ResyncNext)

\* C2: from every synchronizer state, once the input is an endless
\* repetition of well-formed transmissions, a completion is eventually
\* reported whose frame is exactly that of one of these transmissions.
C2_SelfSynchronizing == (gen.n = 1) ~> hist.good

\* C30: when well-formed transmissions are fed to a synchronizer that is
\* in CountingZeros as the first of them starts, the byte on which it
\* enters InSync (bufnum 1, nothing staged) is the last zero byte of a
\* preamble.
C30_EntersAtPreambleEnd ==
    (/\ gen.n = 1
     /\ hist.start = "CountingZeros"
     /\ gen.pos > 0
     /\ context.state = "InSync"
     /\ context.bufnum = 1
     /\ context.count = 0) => gen.pos = ZEROS_TO_SYNC

----------------------------------------------------------------------------
(* Any bytes: from its initial state the synchronizer is fed a stream of   *)
(* arbitrary bytes, one handle_received_byte call per byte.  The stream    *)
(* may start with one well-formed transmission in the code's framing, so   *)
(* that the arbitrary bytes follow a complete screen.                      *)

\* Arbitrary bytes fed: a whole transmission of the scaled geometry has
\* this many.
MaxBytes == 12

\* The byte at offset pos of the leading transmission: the payload bytes
\* of sub-buffer k are all k.
LeadByte(pos) ==
    LET at == ByteAt("code", pos)
    IN  IF at.kind = "zero" THEN 0 ELSE at.k

\* The values a byte of the stream may have: zero, every buffer number,
\* and the largest u8.
AnyByte == (0 .. TOTAL_BUFFERS_PER_FRAME) \cup {255}

\* gen.lead: bytes of the leading transmission still to come. gen.pos:
\* arbitrary bytes fed.
\* hist.byte: the byte fed last. hist.run, hist.maxrun: the zero bytes that
\* end the stream so far and the longest run of zero bytes in it.
\* hist.staged: the bytes fed since the staging count was last 0 in InSync.
\* hist.complete: the last call returned true. hist.any: some call did.
\* hist.loss: the last call called handle_sync_loss. hist.synced: InSync
\* was entered since the last complete screen. hist.acc: payload bytes
\* copied to the screen buffer since the last complete screen or sync loss.
BytesInit ==
    /\ ProgInit
    /\ context = init_receiver_context
    /\ gen \in [scenario : {"bytes"}, pos : {0}, lead : {0, TxLen("code")}]
    /\ hist = [byte |-> 0, run |-> 0, maxrun |-> 0, staged |-> <<>>,
               complete |-> FALSE, any |-> FALSE, loss |-> FALSE,
               synced |-> FALSE, acc |-> 0]

FeedAny ==
    /\ gen.lead > 0 \/ gen.pos < MaxBytes
    /\ \E byte \in (IF gen.lead > 0
                    THEN {LeadByte(TxLen("code") - gen.lead)}
                    ELSE AnyByte) :
         LET r == handle_received_byte(context, byte)
             run == IF byte = 0 THEN hist.run + 1 ELSE 0
         IN  /\ context' = r.ctx
             /\ hist' = [byte |-> byte,
                         run |-> run,
                         maxrun |-> IF run > hist.maxrun THEN run
                                    ELSE hist.maxrun,
                         staged |-> IF context.state = "InSync"
                                       /\ r.ctx.state = "InSync"
                                       /\ r.ctx.count # 0
                                    THEN Append(hist.staged, byte)
                                    ELSE <<>>,
                         complete |-> r.screen_complete,
                         any |-> hist.any \/ r.screen_complete,
                         loss |-> r.sync_loss,
                         synced |-> IF r.screen_complete THEN FALSE
                                    ELSE IF context.state = "CountingZeros"
                                            /\ r.ctx.state = "InSync"
                                         THEN TRUE
                                         ELSE hist.synced,
                         acc |-> IF context.state = "CountingZeros" /\ r.ctx.state = "InSync"
                                  THEN 0
                                  ELSE IF /\ r.ctx.bufnum = context.bufnum + 1
                                          /\ context.bufnum < TOTAL_BUFFERS_PER_FRAME
                                       THEN hist.acc + DATA_PER_BUFFER
                                       ELSE hist.acc]
    /\ gen' = IF gen.lead > 0 THEN [gen EXCEPT !.lead = @ - 1]
               ELSE [gen EXCEPT !.pos = @ + 1]
    /\ UNCHANGED prog

BytesNext == FeedAny

SpecBytes == BytesInit /\ [][BytesNext]_vars

\* C11: as long as the stream fed from the initial state has had no run of
\* ZEROS_TO_SYNC zero bytes (so also: no run of DATA_PER_BUFFER zero bytes,
\* and no zero byte at all), the synchronizer is in CountingZeros after
\* every byte and no call has reported a complete screen.
C11_NoZeroRunNoSync ==
    hist.maxrun < ZEROS_TO_SYNC =>
        /\ context.state = "CountingZeros"
        /\ ~hist.any
        /\ context.bufnum = 0

\* The whole stream went by with zero bytes in it, but never a full run.
C11_Witness ==
    /\ gen.pos = MaxBytes
    /\ hist.maxrun = ZEROS_TO_SYNC - 1
    /\ hist.byte # 0
    /\ context.state = "CountingZeros"

RestUnchanged(k) ==
    \A j \in 1..CBM_8032_FRAME_DATA_LEN :
        (j <= (k - 1) * DATA_PER_BUFFER \/ j > k * DATA_PER_BUFFER)
            => context'.screen_buffer[j] = context.screen_buffer[j]

C21_NoDoubleCompletion ==
    /\ [](hist.complete =>
            /\ context.state = "CountingZeros"
            /\ context.count = 0
            /\ ~hist.synced)
    /\ [][hist'.complete =>
            /\ hist.synced
            /\ ~hist.complete
            /\ context.state = "InSync"
            /\ context.bufnum = TOTAL_BUFFERS_PER_FRAME]_vars
    /\ [][(hist.synced /\ ~hist'.synced) => hist'.complete]_vars

\* Right after the complete screen of the leading transmission came
\* DATA_PER_BUFFER bytes and the number of the mode sub-buffer: no second
\* complete screen, the synchronizer counts zeros.
C21_Witness ==
    /\ hist.any
    /\ gen.lead = 0
    /\ gen.pos = DATA_PER_BUFFER + 1
    /\ hist.byte = TOTAL_BUFFERS_PER_FRAME
    /\ ~hist.complete
    /\ context.state = "CountingZeros"
    /\ context.bufnum = BUFNUM_COMPLETE

\* The length of the frame data of the frame in progress: the offset in
\* screen_buffer at which the payload of the expected sub-buffer is written.
FrameDataLen(ctx) ==
    IF ctx.state = "InSync" THEN (ctx.bufnum - 1) * DATA_PER_BUFFER ELSE 0

C24_BufnumSteps ==
    /\ [][context'.bufnum # context.bufnum =>
            \/ /\ context.state = "InSync"
               /\ context.count = DATA_PER_BUFFER
               /\ hist'.byte = context.bufnum
               /\ context'.bufnum = context.bufnum + 1
            \/ /\ context.state = "CountingZeros"
               /\ context'.state = "InSync"
               /\ context'.bufnum = 1]_vars
    /\ [][(/\ context.state = "InSync"
           /\ context.count = DATA_PER_BUFFER
           /\ hist'.byte # context.bufnum) =>
            /\ context'.state = "CountingZeros"
            /\ hist'.loss
            /\ context'.screen_buffer = context.screen_buffer
            /\ context'.graphic = context.graphic
            /\ context'.bufnum = context.bufnum]_vars

\* The first sub-buffer was accepted and the payload staged next was
\* followed by the number 1 again: sync is lost, bufnum is still 2.
C24_Witness ==
    /\ hist.loss
    /\ context.state = "CountingZeros"
    /\ context.bufnum = 2
    /\ hist.byte = 1
    /\ hist.acc = DATA_PER_BUFFER

----------------------------------------------------------------------------
(* The rate tracker on its own: an Fps of any window length is sampled at  *)
(* any intervals.                                                          *)

\* Largest window length an Fps is made with.
MaxWindowLen == 3

\* Samples taken of one Fps.
MaxSamples == 4

\* Intervals between samples: none, 0.5 s, 1 s, 1.5 s and 2 s.
FpsDeltas == {0, 1, 2, 3, 4}

\* hist.deltas: every delta sampled, in order.
FpsInit ==
    /\ rxpc = "none"
    /\ chan = <<>>
    /\ is_closed = FALSE
    /\ handle = NoHandle
    /\ context = init_receiver_context
    /\ gen = [scenario |-> "fps"]
    /\ hist = [deltas |-> <<>>]
    /\ \E window_len \in 0..MaxWindowLen : fps = with_window_len(window_len)

\* One Fps::sample call.
FpsSample ==
    /\ Len(hist.deltas) < MaxSamples
    /\ \E delta \in FpsDeltas :
         /\ fps' = sample(fps, delta)
         /\ hist' = [hist EXCEPT !.deltas = Append(@, delta)]
    /\ UNCHANGED <<context, rxpc, chan, is_closed, handle, gen>>

FpsNext == FpsSample

SpecFps == FpsInit /\ [][FpsNext]_vars

\* The deltas of the last min(n, L) of the n samples taken.
RecentDeltas ==
    LET n == Len(hist.deltas)
        m == IF n < fps.window_len THEN n ELSE fps.window_len
    IN  SubSeq(hist.deltas, n - m + 1, n)

\* x <= y for two f64 that are neither NaN nor infinite.
F64Le(x, y) == x.n * y.d <= y.n * x.d

\* C13: after n samples the window is the last min(n, L) deltas in the
\* order they came, and the three rates are those of these deltas.
C13_WindowIsRecent ==
    /\ fps.window = RecentDeltas
    /\ Len(fps.window) = (IF Len(hist.deltas) < fps.window_len
                          THEN Len(hist.deltas) ELSE fps.window_len)
    /\ hist.deltas # <<>> =>
         /\ fps.avg = calc_avg(RecentDeltas)
         /\ fps.min = calc_min(RecentDeltas)
         /\ fps.max = calc_max(RecentDeltas)

\* More samples than the window holds: the oldest delta, unlike any in the
\* window, is gone.
C13_Witness ==
    /\ Len(hist.deltas) > fps.window_len
    /\ fps.window_len >= 2
    /\ fps.window = SubSeq(hist.deltas, Len(hist.deltas) - fps.window_len + 1,
                           Len(hist.deltas))
    /\ \A i \in 1..Len(fps.window) : fps.window[i] # hist.deltas[1]
    /\ fps.window[1] # fps.window[2]

\* A sample has been taken and left a window of positive deltas only.
PositiveWindow ==
    /\ hist.deltas # <<>>
    /\ fps.window # <<>>
    /\ \A i \in 1..Len(fps.window) : fps.window[i] > 0

\* The largest and the smallest delta of a non-empty window.
Largest(w) ==
    CHOOSE x \in FpsDeltas : /\ \E i \in 1..Len(w) : w[i] = x
                             /\ \A i \in 1..Len(w) : w[i] <= x

Smallest(w) ==
    CHOOSE x \in FpsDeltas : /\ \E i \in 1..Len(w) : w[i] = x
                             /\ \A i \in 1..Len(w) : w[i] >= x

C15_EmptyWindowZero ==
    /\ fps.window = <<>> =>
         fps.avg = F64Zero /\ fps.min = F64Zero /\ fps.max = F64Zero
    /\ fps.avg.d # 0 /\ fps.min.d # 0 /\ fps.max.d # 0

----------------------------------------------------------------------------
(* The whole program: a device on the serial port, the receiving thread    *)
(* (run, receive_screen, read_from) and the owner of the Handle.           *)

\* Transmissions the device sends before it goes silent.
MaxFrames == 2

\* Most bytes a single port read returns (the buffer has room for 256).
MaxRead == 2

\* Most ports available_ports() lists.
MaxPorts == 2

PortTypes == {"UsbPort", "PciPort"}

PortLists == UNION { [1..n -> PortTypes] : n \in 0..MaxPorts }

\* Mutant: the last USB port listed is taken, not the first.
find_usb_port_last(infos) ==
    IF \E i \in 1..Len(infos) : infos[i] = "UsbPort"
    THEN CHOOSE i \in 1..Len(infos) :
           /\ infos[i] = "UsbPort"
           /\ \A j \in (i + 1)..Len(infos) : infos[j] # "UsbPort"
    ELSE 0

\* fn find_usb_port: the index of the first USB port listed, 0 for None.
find_usb_port(infos) ==
    IF \E i \in 1..Len(infos) : infos[i] = "UsbPort"
    THEN CHOOSE i \in 1..Len(infos) :
           /\ infos[i] = "UsbPort"
           /\ \A j \in 1..(i - 1) : infos[j] # "UsbPort"
    ELSE 0

\* The byte the device sends at offset pos of its transmission n, in the
\* code's framing: data bytes n, mode byte n % 2, and (first transmission
\* only) the number of sub-buffer gen.corrupt replaced by gen.wrong.
DeviceByte(g) ==
    LET at == ByteAt(g.format, g.pos)
    IN  CASE at.kind = "zero" -> 0
          [] at.kind = "seq" ->
               IF g.n = 1 /\ g.corrupt = at.k THEN g.wrong ELSE at.k
          [] OTHER ->
               IF at.k = TOTAL_BUFFERS_PER_FRAME /\ at.i = 1
               THEN g.n % 2
               ELSE U8(g.n)

DeviceAdvance(g) ==
    IF g.pos + 1 = TxLen(g.format)
    THEN [g EXCEPT !.n = @ + 1, !.pos = 0]
    ELSE [g EXCEPT !.pos = @ + 1]

\* The device still has bytes to send.
DeviceHas(g) == g.n <= MaxFrames

RECURSIVE DeviceBytes(_, _)
\* The next len bytes of the device, and the device after them.
DeviceBytes(g, len) ==
    IF len = 0 \/ ~DeviceHas(g)
    THEN [bytes |-> <<>>, gen |-> g]
    ELSE LET rest == DeviceBytes(DeviceAdvance(g), len - 1)
         IN  [bytes |-> <<DeviceByte(g)>> \o rest.bytes, gen |-> rest.gen]

\* What is recorded of a run: messages sent, what try_recv_frame and
\* frame_hz last returned, the last line logged, and whether the thread
\* has read from the port since it last loaded the closing flag.  Of the
\* last spawn call: its result (spawn), whether a USB port was listed
\* (usb_listed), which port open_port was called on (opened: none, the
\* first USB port listed, a later USB port, or a port that is no USB port)
\* and whether ports were listed before that one (passed_over).  Of the
\* thread's last step: the result of its port read (read) and whether it
\* wrote a line to stderr (logged).  Further: whether no sync was lost since
\* InSync was last entered (clean), the complete screens reported
\* (completions), the calls of Fps::sample (samples), the messages sent
\* with the closing flag set (sent_closed), the bytes passed to
\* handle_received_byte (nfed) and the last of them (fed), and the message
\* try_recv_frame returned before the one it returned last (before).
ProgHist ==
    [sends |-> 0, lastop |-> "none", ret |-> NoMsg, returned |-> NoMsg,
     queued |-> 0, hz_ret |-> FrameHzDefault, sent_since |-> FALSE,
     twice |-> FALSE, log |-> "none", spawn |-> "none",
     usb_listed |-> FALSE, opened |-> "none", passed_over |-> FALSE,
     read_since_check |-> FALSE,
     read |-> "none", logged |-> FALSE, clean |-> TRUE, completions |-> 0,
     samples |-> 0, sent_closed |-> 0, nfed |-> 0, fed |-> 0,
     before |-> NoMsg]

Init ==
    /\ ProgInit
    /\ context = init_receiver_context
    /\ hist = ProgHist
    /\ gen \in [format : {"code"}, scenario : {"device"}, n : {1}, pos : {0},
                corrupt : {0, TOTAL_BUFFERS_PER_FRAME}, wrong : {0},
                fill : {0}]

\* The places of the USB-type ports in a port list.
UsbPlaces(infos) == {i \in 1..Len(infos) : infos[i] = "UsbPort"}

\* fn spawn: available_ports() fails or lists infos; open_port fails or
\* opens; with a port open the thread is started and the Handle made.
Spawn ==
    /\ handle.pc = "none"
    /\ \E infos \in PortLists, listed \in BOOLEAN, opened \in BOOLEAN :
         LET info == find_usb_port(infos)
             called == [hist EXCEPT
                          !.lastop = "spawn",
                          !.usb_listed = listed /\ UsbPlaces(infos) # {},
                          !.opened =
                             IF ~listed \/ info = 0 THEN "none"
                             ELSE IF info \notin UsbPlaces(infos)
                             THEN "not_usb"
                             ELSE IF \A j \in UsbPlaces(infos) : info <= j
                             THEN "first_usb"
                             ELSE "later_usb",
                          !.passed_over = listed /\ info > 1]
         IN  IF ~listed
             THEN /\ hist' = [called EXCEPT !.spawn = "Err(available_ports)"]
                  /\ UNCHANGED <<handle, rxpc, context, fps>>
             ELSE IF info = 0
             THEN /\ hist' = [called EXCEPT !.spawn = "Err(NoDevice)"]
                  /\ UNCHANGED <<handle, rxpc, context, fps>>
             ELSE IF ~opened
             THEN /\ hist' = [called EXCEPT !.spawn = "Err(open)"]
                  /\ UNCHANGED <<handle, rxpc, context, fps>>
             ELSE /\ hist' = [called EXCEPT !.spawn = "Ok"]
                  /\ handle' = [NoHandle EXCEPT !.pc = "idle",
                                                !.port_info = infos[info]]
                  /\ rxpc' = "loop"
                  /\ context' = init_receiver_context
                  /\ fps' = FpsDefault
    /\ UNCHANGED <<chan, is_closed, gen>>

\* Mutant: the loop goes on whatever the closing flag says.
RxLoopCheck_ignores_flag ==
    /\ rxpc = "loop"
    /\ rxpc' = "receive"
    /\ hist' = [hist EXCEPT !.read_since_check = FALSE,
                            !.read = "none", !.logged = FALSE]
    /\ UNCHANGED <<context, fps, chan, is_closed, handle, gen>>

\* Mutant: receive_screen starts with an empty read buffer.
RxLoopCheck_drops_buffer ==
    /\ rxpc = "loop"
    /\ rxpc' = IF is_closed THEN "done" ELSE "receive"
    /\ context' = [context EXCEPT !.rx_buffer_index = context.rx_buffer_count]
    /\ hist' = [hist EXCEPT !.read_since_check = FALSE,
                            !.read = "none", !.logged = FALSE]
    /\ UNCHANGED <<fps, chan, is_closed, handle, gen>>

\* run: while !is_closed.load(..)
RxLoopCheck ==
    /\ rxpc = "loop"
    /\ rxpc' = IF is_closed THEN "done" ELSE "receive"
    /\ hist' = [hist EXCEPT !.read_since_check = FALSE,
                            !.read = "none", !.logged = FALSE]
    /\ UNCHANGED <<context, fps, chan, is_closed, handle, gen>>

\* What read_from returns and logs for each result of port.read.
ReadResults == {"Ok", "TimedOut", "WouldBlock", "Other"}

\* Mutant: a read error other than a timeout ends the thread.
RxRead_error_ends ==
    /\ rxpc = "receive"
    /\ context.rx_buffer_index = context.rx_buffer_count
    /\ \E res \in ReadResults, len \in 1..MaxRead :
         /\ IF res = "Ok"
            THEN LET got == DeviceBytes(gen, len)
                 IN  /\ DeviceHas(gen)
                     /\ context' = [context EXCEPT
                          !.rx_buffer = got.bytes,
                          !.rx_buffer_index = 0,
                          !.rx_buffer_count = Len(got.bytes)]
                     /\ gen' = got.gen
                     /\ hist' = [hist EXCEPT !.read_since_check = TRUE,
                                             !.read = res,
                                             !.logged = FALSE]
            ELSE /\ len = 1
                 /\ context' = [context EXCEPT
                      !.rx_buffer = <<>>,
                      !.rx_buffer_index = 0,
                      !.rx_buffer_count = 0]
                 /\ hist' = [hist EXCEPT
                      !.read_since_check = TRUE,
                      !.read = res,
                      !.logged = res \in {"TimedOut", "Other"},
                      !.log = CASE res = "TimedOut" -> "no serial data received"
                                [] res = "Other" -> "read error"
                                [] OTHER -> @]
                 /\ UNCHANGED gen
         /\ rxpc' = IF res = "Other" THEN "done" ELSE rxpc
    /\ UNCHANGED <<fps, chan, is_closed, handle>>

\* Mutant: a read that fails leaves the count of the read before it.
RxRead_failure_keeps_count ==
    /\ rxpc = "receive"
    /\ context.rx_buffer_index = context.rx_buffer_count
    /\ \E res \in ReadResults, len \in 1..MaxRead :
         IF res = "Ok"
         THEN LET got == DeviceBytes(gen, len)
              IN  /\ DeviceHas(gen)
                  /\ context' = [context EXCEPT
                       !.rx_buffer = got.bytes,
                       !.rx_buffer_index = 0,
                       !.rx_buffer_count = Len(got.bytes)]
                  /\ gen' = got.gen
                  /\ hist' = [hist EXCEPT !.read_since_check = TRUE,
                                          !.read = res,
                                          !.logged = FALSE]
         ELSE /\ len = 1
              /\ context' = [context EXCEPT !.rx_buffer_index = 0]
              /\ hist' = [hist EXCEPT
                   !.read_since_check = TRUE,
                   !.read = res,
                   !.logged = res \in {"TimedOut", "Other"},
                   !.log = CASE res = "TimedOut" -> "no serial data received"
                             [] res = "Other" -> "read error"
                             [] OTHER -> @]
              /\ UNCHANGED gen
    /\ UNCHANGED <<rxpc, fps, chan, is_closed, handle>>

\* receive_screen, read buffer used up: read_from fills it again. A failed
\* read counts as a read of no bytes.
RxRead ==
    /\ rxpc = "receive"
    /\ context.rx_buffer_index = context.rx_buffer_count
    /\ \E res \in ReadResults, len \in 1..MaxRead :
         IF res = "Ok"
         THEN LET got == DeviceBytes(gen, len)
              IN  /\ DeviceHas(gen)
                  /\ context' = [context EXCEPT
                       !.rx_buffer = got.bytes,
                       !.rx_buffer_index = 0,
                       !.rx_buffer_count = Len(got.bytes)]
                  /\ gen' = got.gen
                  /\ hist' = [hist EXCEPT !.read_since_check = TRUE,
                                          !.read = res,
                                          !.logged = FALSE]
         ELSE /\ len = 1
              /\ context' = [context EXCEPT
                   !.rx_buffer = <<>>,
                   !.rx_buffer_index = 0,
                   !.rx_buffer_count = 0]
              /\ hist' = [hist EXCEPT
                   !.read_since_check = TRUE,
                   !.read = res,
                   !.logged = res \in {"TimedOut", "Other"},
                   !.log = CASE res = "TimedOut" -> "no serial data received"
                             [] res = "Other" -> "read error"
                             [] OTHER -> @]
              /\ UNCHANGED gen
    /\ UNCHANGED <<rxpc, fps, chan, is_closed, handle>>

\* receive_screen, a byte left in the read buffer: it goes through
\* handle_received_byte, and a completed screen ends receive_screen.
RxByte ==
    /\ rxpc = "receive"
    /\ context.rx_buffer_index # context.rx_buffer_count
    /\ LET ix == context.rx_buffer_index
           received_byte == context.rx_buffer[ix + 1]
           r == handle_received_byte(
                  [context EXCEPT !.rx_buffer_index = ix + 1], received_byte)
       IN  /\ context' = r.ctx
           /\ rxpc' = IF r.screen_complete THEN "send" ELSE "receive"
           /\ hist' = [hist EXCEPT
                !.log = IF r.sync_loss THEN "out of sync" ELSE @,
                !.read = "none",
                !.logged = r.sync_loss,
                !.clean = IF r.sync_loss THEN FALSE
                          ELSE IF /\ context.state = "CountingZeros"
                                  /\ r.ctx.state = "InSync"
                               THEN TRUE
                               ELSE @,
                !.completions = IF r.screen_complete THEN @ + 1 ELSE @,
                !.nfed = @ + 1,
                !.fed = received_byte]
    /\ UNCHANGED <<fps, chan, is_closed, handle, gen>>

\* The Receiver end of the channel lives as long as the Handle.
ReceiverAlive == handle.pc \in {"idle", "recv", "joining"}

\* Mutant: a failed send is logged and the loop goes on.
RxSend_ignores_error ==
    /\ rxpc = "send"
    /\ \E delta \in Deltas :
         LET frame == NewFrame(context)
             f == sample(fps, delta)
             hz == FrameHzOf(f)
         IN  /\ fps' = f
             /\ IF ReceiverAlive
                THEN /\ chan' = Append(chan, [id |-> hist.sends + 1,
                                              frame |-> frame, hz |-> hz])
                     /\ rxpc' = "loop"
                     /\ hist' = [hist EXCEPT
                          !.sends = @ + 1,
                          !.sent_since = TRUE,
                          !.read = "none",
                          !.logged = FALSE,
                          !.samples = @ + 1,
                          !.sent_closed = IF is_closed THEN @ + 1 ELSE @]
                ELSE /\ rxpc' = "loop"
                     /\ hist' = [hist EXCEPT !.log = "lost connection",
                                             !.read = "none",
                                             !.logged = TRUE,
                                             !.samples = @ + 1]
                     /\ UNCHANGED chan
    /\ UNCHANGED <<context, is_closed, handle, gen>>

\* Mutant: the message carries the rate as it was before the sample.
RxSend_sample_after_send ==
    /\ rxpc = "send"
    /\ \E delta \in Deltas :
         LET frame == NewFrame(context)
             f == sample(fps, delta)
             hz == FrameHzOf(fps)
         IN  /\ fps' = f
             /\ IF ReceiverAlive
                THEN /\ chan' = Append(chan, [id |-> hist.sends + 1,
                                              frame |-> frame, hz |-> hz])
                     /\ rxpc' = "loop"
                     /\ hist' = [hist EXCEPT
                          !.sends = @ + 1,
                          !.sent_since = TRUE,
                          !.read = "none",
                          !.logged = FALSE,
                          !.samples = @ + 1,
                          !.sent_closed = IF is_closed THEN @ + 1 ELSE @]
                ELSE /\ rxpc' = "done"
                     /\ hist' = [hist EXCEPT !.log = "lost connection",
                                             !.read = "none",
                                             !.logged = TRUE,
                                             !.samples = @ + 1]
                     /\ UNCHANGED chan
    /\ UNCHANGED <<context, is_closed, handle, gen>>

\* run, after receive_screen: the frame is built, the rate sampled, and
\* both are sent; a failed send ends the thread.
RxSend ==
    /\ rxpc = "send"
    /\ \E delta \in Deltas :
         LET frame == NewFrame(context)
             f == sample(fps, delta)
             hz == FrameHzOf(f)
         IN  /\ fps' = f
             /\ IF ReceiverAlive
                THEN /\ chan' = Append(chan, [id |-> hist.sends + 1,
                                              frame |-> frame, hz |-> hz])
                     /\ rxpc' = "loop"
                     /\ hist' = [hist EXCEPT
                          !.sends = @ + 1,
                          !.sent_since = TRUE,
                          !.read = "none",
                          !.logged = FALSE,
                          !.samples = @ + 1,
                          !.sent_closed = IF is_closed THEN @ + 1 ELSE @]
                ELSE /\ rxpc' = "done"
                     /\ hist' = [hist EXCEPT !.log = "lost connection",
                                             !.read = "none",
                                             !.logged = TRUE,
                                             !.samples = @ + 1]
                     /\ UNCHANGED chan
    /\ UNCHANGED <<context, is_closed, handle, gen>>

\* Mutant: the first message found is kept, as by next() for last().
try_iter_first(h, msg) ==
    [h EXCEPT !.pc = "recv", !.last = IF @ = NoMsg THEN msg ELSE @]

\* rx.try_iter().last(): the message found replaces the one before it.
try_iter_last(h, msg) ==
    [h EXCEPT !.pc = "recv", !.last = msg]

\* Handle::try_recv_frame, one next() of rx.try_iter() that finds a
\* message: last() keeps it and drops the one before.
TryRecvNext ==
    /\ handle.pc \in {"idle", "recv"}
    /\ chan # <<>>
    /\ handle' = try_iter_last(handle, Head(chan))
    /\ chan' = Tail(chan)
    /\ hist' = IF handle.pc = "idle"
               THEN [hist EXCEPT !.queued = Len(chan)]
               ELSE hist
    /\ UNCHANGED <<context, rxpc, fps, is_closed, gen>>

\* Mutant: without a message the recorded rate falls back to the default.
try_recv_frame_result_or_default(h) ==
    [h EXCEPT !.pc = "idle",
              !.last_recorded_frame_hz =
                 IF h.last # NoMsg THEN h.last.hz ELSE FrameHzDefault,
              !.last = NoMsg]

\* Mutant: the message found stays with the Handle for the next call.
try_recv_frame_result_keeps_last(h) ==
    IF h.last # NoMsg
    THEN [h EXCEPT !.pc = "idle", !.last_recorded_frame_hz = h.last.hz]
    ELSE [h EXCEPT !.pc = "idle"]

\* Handle::try_recv_frame, after try_iter() found the channel empty: the
\* rate of the last message, if any, is recorded.
try_recv_frame_result(h) ==
    IF h.last # NoMsg
    THEN [h EXCEPT !.pc = "idle", !.last_recorded_frame_hz = h.last.hz,
                   !.last = NoMsg]
    ELSE [h EXCEPT !.pc = "idle", !.last = NoMsg]

\* Handle::try_recv_frame, the next() of rx.try_iter() that finds the
\* channel empty: the call returns the frame of the last message, or None.
TryRecvEnd ==
    /\ handle.pc \in {"idle", "recv"}
    /\ chan = <<>>
    /\ handle' = try_recv_frame_result(handle)
    /\ hist' = [hist EXCEPT
         !.lastop = "try_recv_frame",
         !.ret = handle.last,
         !.returned = IF handle.last # NoMsg THEN handle.last ELSE @,
         !.before = IF handle.last # NoMsg THEN hist.returned ELSE @,
         !.queued = IF handle.pc = "idle" THEN 0 ELSE @,
         !.twice = hist.lastop = "try_recv_frame" /\ ~hist.sent_since,
         !.sent_since = FALSE]
    /\ UNCHANGED <<context, rxpc, fps, chan, is_closed, gen>>

\* Mutant: frame_hz answers with the default rate.
frame_hz_default(h) == FrameHzDefault

\* Handle::frame_hz
frame_hz(h) == h.last_recorded_frame_hz

FrameHz ==
    /\ handle.pc = "idle"
    /\ hist' = [hist EXCEPT !.lastop = "frame_hz", !.hz_ret = frame_hz(handle)]
    /\ UNCHANGED <<context, rxpc, fps, chan, is_closed, handle, gen>>

\* Handle::close, self.is_closed.store(true, ..)
CloseStore ==
    /\ handle.pc = "idle"
    /\ is_closed' = TRUE
    /\ handle' = [handle EXCEPT !.pc = "joining"]
    /\ UNCHANGED <<context, rxpc, fps, chan, gen, hist>>

\* Mutant: close returns without joining the thread.
CloseJoin_no_join ==
    /\ handle.pc = "joining"
    /\ handle' = [handle EXCEPT !.pc = "closed"]
    /\ hist' = [hist EXCEPT !.lastop = "close"]
    /\ UNCHANGED <<context, rxpc, fps, chan, is_closed, gen>>

\* Handle::close, self.thread.join() returns: the thread has ended. The
\* Handle is consumed.
CloseJoin ==
    /\ handle.pc = "joining"
    /\ rxpc = "done"
    /\ handle' = [handle EXCEPT !.pc = "closed"]
    /\ hist' = [hist EXCEPT !.lastop = "close"]
    /\ UNCHANGED <<context, rxpc, fps, chan, is_closed, gen>>

\* The Handle is dropped without close (lib.rs:147): the Receiver goes,
\* the thread is detached.
DropHandle ==
    /\ handle.pc = "idle"
    /\ handle' = [handle EXCEPT !.pc = "dropped"]
    /\ hist' = [hist EXCEPT !.lastop = "drop"]
    /\ UNCHANGED <<context, rxpc, fps, chan, is_closed, gen>>

\* The steps of the receiving thread.
RxNext == RxLoopCheck \/ RxRead \/ RxByte \/ RxSend

Next ==
    \/ Spawn
    \/ RxLoopCheck
    \/ RxRead
    \/ RxByte
    \/ RxSend
    \/ TryRecvNext
    \/ TryRecvEnd
    \/ FrameHz
    \/ CloseStore
    \/ CloseJoin
    \/ DropHandle

Spec == Init /\ [][Next]_vars

\* The thread, once spawned, keeps running; a join returns once the thread
\* has ended.
FairSpec == Spec /\ WF_vars(RxNext) /\ WF_vars(CloseJoin)

----------------------------------------------------------------------------
(* receive_screen on any bytes: the port delivers, in reads of any length  *)
(* up to MaxRead, the first bytes of a well-formed transmission (any       *)
(* number of them) and then arbitrary bytes; every byte read goes through  *)
(* handle_received_byte.  A read of no bytes is a read that failed.        *)

\* Arbitrary bytes read after the well-formed ones.
MaxRecv == 4

ReceiveInit ==
    /\ ProgInit
    /\ context = init_receiver_context
    /\ gen \in [scenario : {"receive"}, lead : 0 .. TxLen("code"),
                pos : {0}]
    /\ hist = [byte |-> 0, ix |-> 0]

\* The reads of len bytes the port can deliver at place pos of the stream.
ReadsAt(g, len) ==
    {bytes \in [1..len -> AnyByte] :
       \A i \in 1..len :
          g.pos + i - 1 < g.lead => bytes[i] = LeadByte(g.pos + i - 1)}

\* receive_screen, rx_buffer_index == rx_buffer_count: read_from fills the
\* read buffer again.
ReceiveRead ==
    /\ context.rx_buffer_index = context.rx_buffer_count
    /\ \E len \in 0..MaxRead :
         /\ gen.pos + len <= gen.lead + MaxRecv
         /\ \E bytes \in ReadsAt(gen, len) :
              context' = [context EXCEPT !.rx_buffer = bytes,
                                         !.rx_buffer_index = 0,
                                         !.rx_buffer_count = len]
         /\ gen' = [gen EXCEPT !.pos = @ + len]
    /\ UNCHANGED <<hist, prog>>

\* receive_screen, a byte left in the read buffer: the index moves on and
\* the byte goes through handle_received_byte.  hist: that byte and the
\* index it was read at.
ReceiveByte ==
    /\ context.rx_buffer_index # context.rx_buffer_count
    /\ LET ix == context.rx_buffer_index
           received_byte == context.rx_buffer[ix + 1]
       IN  /\ context' = handle_received_byte(
                           [context EXCEPT !.rx_buffer_index = ix + 1],
                           received_byte).ctx
           /\ hist' = [byte |-> received_byte, ix |-> ix]
    /\ UNCHANGED <<gen, prog>>

ReceiveNext == ReceiveRead \/ ReceiveByte

SpecReceive == ReceiveInit /\ [][ReceiveNext]_vars

\* C31: count is at most DATA_PER_BUFFER, in InSync bufnum is between 1
\* and TOTAL_BUFFERS_PER_FRAME, the read index is at most the read count
\* and the count at most what a read returns; the byte passed on is read
\* at an index below the read count; a byte staged is written at an index
\* below DATA_PER_BUFFER, and a payload copied to the screen is written
\* below CBM_8032_FRAME_DATA_LEN; the buffers keep their lengths.
C31_InBounds ==
    /\ [](/\ context.count <= DATA_PER_BUFFER
          /\ context.state = "InSync" =>
               /\ 1 <= context.bufnum
               /\ context.bufnum <= TOTAL_BUFFERS_PER_FRAME
          /\ context.rx_buffer_index <= context.rx_buffer_count
          /\ context.rx_buffer_count <= MaxRead
          /\ Len(context.rx_buffer) = context.rx_buffer_count
          /\ DOMAIN context.buffer = 1..DATA_PER_BUFFER
          /\ DOMAIN context.screen_buffer = 1..CBM_8032_FRAME_DATA_LEN)
    /\ [][context'.rx_buffer_index = context.rx_buffer_index + 1 =>
            /\ hist'.ix < context.rx_buffer_count
            /\ hist'.byte = context.rx_buffer[hist'.ix + 1]
            /\ (context.state = "InSync"
                  /\ context'.count = context.count + 1) =>
                 /\ context.count < DATA_PER_BUFFER
                 /\ context'.buffer[context.count + 1] = hist'.byte
            /\ (context.state = "InSync"
                  /\ context'.bufnum = context.bufnum + 1
                  /\ context.bufnum < TOTAL_BUFFERS_PER_FRAME) =>
                 /\ context.bufnum * DATA_PER_BUFFER
                      <= CBM_8032_FRAME_DATA_LEN
                 /\ \A i \in 1..DATA_PER_BUFFER :
                      context'.screen_buffer[
                        (context.bufnum - 1) * DATA_PER_BUFFER + i]
                          = context.buffer[i]]_vars

\* Arbitrary bytes have been read, and the number that had the last data
\* sub-buffer copied to the end of the screen was not the last byte of its
\* read.
C31_Witness ==
    /\ gen.pos > gen.lead
    /\ context.state = "InSync"
    /\ context.bufnum = TOTAL_BUFFERS_PER_FRAME
    /\ context.count = 0
    /\ hist.byte = TOTAL_BUFFERS_PER_FRAME - 1
    /\ hist.ix + 1 < context.rx_buffer_count

----------------------------------------------------------------------------
(* lib.rs: the controller.  update() runs once per frame of the           *)
(* application; an Instant is a whole number of half seconds on a          *)
(* monotonic clock.  gen holds the fields of Model that update() uses and  *)
(* the clock; hist holds what the last update() did about serial::spawn.   *)

\* The clock stops here.
MaxNow == 7

\* std::time::Duration::from_secs(1) (lib.rs:131), in half seconds.
ONE_SECOND == 2

\* Option<Instant>::None
NoInstant == -1

\* fn model: serial_on is config.on_startup.serial, no handle, no attempt.
UpdateInit ==
    /\ ProgInit
    /\ context = init_receiver_context
    /\ gen \in [scenario : {"update"}, now : {0}, pc : {"idle"},
                serial_on : BOOLEAN, serial_handle : {"None"},
                last_serial_connection_attempt : {NoInstant}]
    /\ hist = [spawned |-> FALSE, at |-> NoInstant, prev |-> NoInstant,
               serial_on |-> FALSE, held |-> FALSE]

\* Time passes.
Tick ==
    /\ gen.now < MaxNow
    /\ gen' = [gen EXCEPT !.now = @ + 1]
    /\ UNCHANGED <<context, hist, prog>>

\* Mutant: an attempt is made as soon as one second has passed.
should_attempt_after_one_second(last, now) ==
    last = NoInstant \/ now - last >= ONE_SECOND

\* update: let should_attempt = match model.last_serial_connection_attempt
should_attempt(last, now) ==
    last = NoInstant \/ now - last > ONE_SECOND

\* fn update.  gui::update toggles serial_on on a click; then spawn is
\* attempted, or the handle is taken and closed, or neither; a handle that
\* says it is closed is dropped.  close() joins the thread: when the join
\* does not return at once, update() stays in it (pc "closing").  The
\* frame try_recv_frame may return goes to the visualisation.  hist: that
\* this call attempted spawn, when, with serial_on and a handle held or
\* not, and when the attempt before it was made.
Update ==
    /\ gen.pc = "idle"
    /\ \E clicked \in BOOLEAN, ok \in BOOLEAN, closed \in BOOLEAN,
          joined \in BOOLEAN :
         LET on == IF clicked THEN ~gen.serial_on ELSE gen.serial_on
             held == gen.serial_handle = "Some"
             last == gen.last_serial_connection_attempt
             starts == on /\ ~held
             attempts == starts /\ should_attempt(last, gen.now)
             closes == ~starts /\ ~on /\ held
             h1 == IF attempts THEN (IF ok THEN "Some" ELSE "None")
                   ELSE IF closes THEN "None"
                   ELSE gen.serial_handle
             h2 == IF h1 = "Some" /\ closed THEN "None" ELSE h1
         IN  IF closes /\ ~joined
             THEN /\ gen' = [gen EXCEPT !.serial_on = on,
                                        !.serial_handle = "None",
                                        !.pc = "closing"]
                  /\ hist' = [hist EXCEPT !.spawned = FALSE]
             ELSE /\ gen' = [gen EXCEPT
                       !.serial_on = on,
                       !.serial_handle = h2,
                       !.last_serial_connection_attempt =
                          IF attempts THEN gen.now ELSE @]
                  /\ hist' = IF attempts
                             THEN [spawned |-> TRUE, at |-> gen.now,
                                   prev |-> hist.at, serial_on |-> on,
                                   held |-> held]
                             ELSE [hist EXCEPT !.spawned = FALSE]
    /\ UNCHANGED <<context, prog>>

\* update, the join in close() returns: no handle is left to drop or to
\* receive from.
UpdateClosed ==
    /\ gen.pc = "closing"
    /\ gen' = [gen EXCEPT !.pc = "idle"]
    /\ UNCHANGED <<context, hist, prog>>

UpdateNext == Tick \/ Update \/ UpdateClosed

SpecUpdate == UpdateInit /\ [][UpdateNext]_vars

\* C32: an update() that called serial::spawn did so with serial_on set
\* and no handle held, and more than one second after the attempt before
\* it, if there was one; an update() with serial_on off or a handle held
\* calls no spawn.
C32_SpawnAttempts ==
    /\ [](hist.spawned =>
            /\ hist.serial_on
            /\ ~hist.held
            /\ hist.prev # NoInstant => hist.at - hist.prev > ONE_SECOND)
    /\ [][(gen.pc = "idle" /\ gen'.now = gen.now /\ hist'.spawned) =>
            /\ gen'.serial_on
            /\ gen.serial_handle = "None"
            /\ gen'.last_serial_connection_attempt = gen.now
            /\ \/ gen.last_serial_connection_attempt = NoInstant
               \/ gen.now - gen.last_serial_connection_attempt > ONE_SECOND
         ]_vars

\* A second attempt, made as soon as an update() may make it after a
\* first one that failed.
C32_Witness ==
    /\ hist.spawned
    /\ hist.prev # NoInstant
    /\ hist.at - hist.prev = ONE_SECOND + 1
    /\ gen.serial_handle = "None"
    /\ gen.now = hist.at

----------------------------------------------------------------------------
\* C2 is checked under SpecResync, above.

\* C5: once close() has stored the closing flag, close() eventually
\* returns, whatever the port does.
C5_CloseReturns == (handle.pc = "joining") ~> (handle.pc = "closed")

\* C6: once close() has returned the thread has ended, and from then on
\* nothing is sent, nothing is read from the port, the receiver context
\* does not change and no call returns a frame of the handle.
C6_ClosedIsFinal ==
    /\ [](handle.pc = "closed" => rxpc = "done")
    /\ [][handle.pc = "closed" =>
            /\ rxpc' = rxpc /\ chan' = chan /\ gen' = gen
            /\ context' = context /\ fps' = fps
            /\ hist'.sends = hist.sends /\ hist'.ret = hist.ret
            /\ hist'.returned = hist.returned
            /\ handle' = handle]_vars

\* close() has returned after the thread had sent a message.
C6_Witness == handle.pc = "closed" /\ hist.sends > 0 /\ hist.lastop = "close"

\* C7: a try_recv_frame call never waits; when it found messages queued it
\* returns the most recently sent one, leaves the channel empty and has
\* recorded that message's rate; when it found none it returns None.
C7_LatestWins ==
    /\ handle.pc = "recv" => ENABLED (TryRecvNext \/ TryRecvEnd)
    /\ (hist.lastop = "try_recv_frame" /\ handle.pc = "idle"
          /\ ~hist.sent_since)
         => /\ chan = <<>>
            /\ hist.queued >= 1 =>
                 /\ hist.ret # NoMsg
                 /\ hist.ret.id = hist.sends
                 /\ handle.last_recorded_frame_hz = hist.ret.hz
            /\ hist.queued = 0 => hist.ret = NoMsg

\* A call found two messages queued and returned the second.
C7_Witness ==
    /\ hist.lastop = "try_recv_frame" /\ handle.pc = "idle"
    /\ ~hist.sent_since
    /\ hist.queued = 2
    /\ hist.ret.id = 2
    /\ hist.ret.hz # FrameHzDefault

\* C8: a try_recv_frame call that follows another one with no message sent
\* in between returns None and leaves the recorded rate as it was.
C8_SecondCallNone ==
    [][(TryRecvEnd /\ hist.lastop = "try_recv_frame" /\ ~hist.sent_since)
         => /\ hist'.ret = NoMsg
            /\ frame_hz(handle') = frame_hz(handle)]_vars

\* A second call in a row returned None after the first had returned a
\* frame, and the rate of that frame is still recorded.
C8_Witness ==
    /\ hist.twice /\ hist.lastop = "try_recv_frame"
    /\ hist.ret = NoMsg
    /\ hist.returned # NoMsg
    /\ frame_hz(handle) = hist.returned.hz
    /\ frame_hz(handle) # FrameHzDefault

\* The rate frame_hz is to return: that of the message whose frame
\* try_recv_frame returned last, or the default.
RateOfReturned ==
    IF hist.returned = NoMsg THEN FrameHzDefault ELSE hist.returned.hz

\* C9: while the Handle lives, frame_hz is the rate sent with the frame most
\* recently returned by try_recv_frame, or the all-zero default if none
\* was; a frame_hz call returns it, never waits and changes nothing.
C9_FrameHz ==
    /\ [](handle.pc \in {"idle", "recv", "joining"} =>
            /\ frame_hz(handle) = RateOfReturned
            /\ hist.lastop = "frame_hz" => hist.hz_ret = RateOfReturned
            /\ handle.pc = "idle" => ENABLED FrameHz)
    /\ [][FrameHz => UNCHANGED <<prog, context, gen>>]_vars
    /\ FrameHzDefault.avg = F64(0, 1) /\ FrameHzDefault.min = F64(0, 1)
    /\ FrameHzDefault.max = F64(0, 1)

\* frame_hz returned the rate of the second message, after try_recv_frame
\* had returned its frame.
C9_Witness ==
    /\ hist.lastop = "frame_hz"
    /\ hist.returned.id = 2
    /\ hist.hz_ret = hist.returned.hz
    /\ hist.hz_ret # FrameHzDefault

\* C12: a spawn call that lists the ports returns Err(NoDevice) exactly
\* when none of them is a USB port, and otherwise calls open_port on the
\* first USB port listed; after any Err there is no thread and no Handle;
\* a Handle exists only after Ok, with the thread started on that port.
C12_Spawn ==
    /\ hist.spawn \in {"Err(NoDevice)", "Err(open)", "Ok"} =>
          (hist.spawn = "Err(NoDevice)" <=> ~hist.usb_listed)
    /\ hist.spawn = "Err(NoDevice)" => hist.opened = "none"
    /\ hist.spawn \in {"Err(open)", "Ok"} => hist.opened = "first_usb"
    /\ hist.spawn \in {"Err(available_ports)", "Err(NoDevice)", "Err(open)"}
          => handle = NoHandle /\ rxpc = "none" /\ chan = <<>>
    /\ handle.pc # "none" =>
          /\ hist.spawn = "Ok"
          /\ rxpc # "none"
          /\ handle.port_info = "UsbPort"

\* spawn returned a Handle for the first USB port listed, which was not
\* the first port listed.
C12_Witness ==
    /\ hist.spawn = "Ok"
    /\ handle.pc = "idle" /\ hist.lastop = "spawn"
    /\ handle.port_info = "UsbPort"
    /\ hist.opened = "first_usb" /\ hist.passed_over
    /\ rxpc = "loop"

\* C16: a port read that fails with an error other than a timeout gives the
\* synchronizer no byte and leaves its state as it was, the thread stays in
\* the receiving loop with its read buffer used up, and whenever it is
\* there after such an error the next read can be issued.
C16_ReadErrorRetries ==
    /\ [][(/\ hist'.log = "read error"
           /\ context'.rx_buffer_count = 0
           /\ rxpc = "receive"
           /\ RxRead)
            => /\ rxpc' = "receive"
               /\ context'.rx_buffer_index = context'.rx_buffer_count
               /\ context'.state = context.state
               /\ context'.bufnum = context.bufnum
               /\ context'.count = context.count
               /\ context'.buffer = context.buffer
               /\ context'.screen_buffer = context.screen_buffer
               /\ context'.graphic = context.graphic
               /\ UNCHANGED <<gen, fps, chan, is_closed, handle>>]_vars
    /\ [](hist.read = "Other" =>
            /\ rxpc = "receive"
            /\ context.rx_buffer_index = context.rx_buffer_count
            /\ ENABLED RxRead)

\* A read failed in the middle of a sub-buffer: the thread is still
\* receiving, in sync, with the bytes staged so far.
C16_Witness ==
    /\ hist.log = "read error"
    /\ rxpc = "receive"
    /\ context.rx_buffer = <<>>
    /\ context.state = "InSync"
    /\ context.count > 0
    /\ context.bufnum > 1

\* C17: a send that finds the Receiver dropped ends the thread: it is the
\* last step of the thread, which from then on reads no byte from the
\* port, samples no rate and sends nothing.
C17_SendFailureEnds ==
    /\ [][(~ReceiverAlive /\ rxpc = "send" /\ RxSend) =>
            rxpc' = "done" /\ hist'.log = "lost connection"]_vars
    /\ [](hist.log = "lost connection" => rxpc = "done")
    /\ [][rxpc = "done" =>
            /\ UNCHANGED <<rxpc, context, gen, fps, chan>>
            /\ hist'.sends = hist.sends]_vars

\* The Handle was dropped after one frame was sent, and the send of the
\* next one failed.
C17_Witness ==
    /\ handle.pc = "dropped"
    /\ hist.log = "lost connection"
    /\ rxpc = "done"
    /\ hist.sends = 1
    /\ Len(fps.window) = 2

\* C18: the thread issues a port read only if it has loaded the closing
\* flag since its last port read.
C18_FlagCheckedBetweenReads ==
    [][RxRead => ~hist.read_since_check]_vars

\* The messages sent that are still somewhere: in the channel, with the
\* Handle, or returned by the last try_recv_frame call.
Messages ==
    {chan[i] : i \in 1..Len(chan)} \cup ({handle.last, hist.ret} \ {NoMsg})

\* The screen the device sends in its transmission n.
FrameOfTx(n) ==
    [mode |-> byte_to_mode(n % 2),
     data |-> [j \in 1..CBM_8032_FRAME_DATA_LEN |-> U8(n)]]

\* C22: the frame of every message is the screen of one transmission, data
\* and mode; when the thread builds a frame no sync was lost since InSync
\* was entered; no more messages are sent than screens were complete, and
\* after a failed read or a sync loss the thread is still in receive_screen.
C22_FramesAreWhole ==
    /\ \A m \in Messages : \E n \in 1..MaxFrames : m.frame = FrameOfTx(n)
    /\ rxpc = "send" =>
         /\ hist.clean
         /\ \E n \in 1..MaxFrames : NewFrame(context) = FrameOfTx(n)
    /\ hist.sends <= hist.completions
    /\ (\/ hist.read \in {"TimedOut", "WouldBlock", "Other"}
        \/ hist.logged /\ hist.log = "out of sync") => rxpc = "receive"

\* Sync was lost on the last number of the first transmission, all its data
\* copied; the one message sent since carries the second screen only.
C22_Witness ==
    /\ gen.corrupt = TOTAL_BUFFERS_PER_FRAME
    /\ hist.sends = 1
    /\ Len(chan) = 1
    /\ chan[1].frame = FrameOfTx(2)

\* C25: every complete screen is followed by one call of Fps::sample and,
\* unless the Receiver is gone, one message; messages are queued in the
\* order sent; the message of the latest sample carries the rates that
\* sample left in the Fps, and the latest message the frame of the
\* context as receive_screen left it.
C25_OneMessagePerCompletion ==
    /\ hist.completions = hist.samples + (IF rxpc = "send" THEN 1 ELSE 0)
    /\ hist.samples =
         hist.sends + (IF hist.log = "lost connection" THEN 1 ELSE 0)
    /\ \A i \in 1..Len(chan) : chan[i].id = hist.sends - Len(chan) + i
    /\ \A m \in Messages :
         /\ m.id = hist.samples => m.hz = FrameHzOf(fps)
         /\ (m.id = hist.sends /\ rxpc = "loop") => m.frame = NewFrame(context)

\* Two screens were complete, two messages are queued, with the rates of
\* the first and of the second sample.
C25_Witness ==
    /\ hist.completions = 2
    /\ hist.samples = 2
    /\ Len(chan) = 2
    /\ chan[1].hz # chan[2].hz
    /\ chan[2].hz = FrameHzOf(fps)

\* What the synchronizer keeps between bytes.
SyncState(ctx) ==
    <<ctx.state, ctx.count, ctx.bufnum, ctx.buffer, ctx.screen_buffer,
      ctx.graphic>>

C27_ReturnedInOrder ==
    (hist.returned # NoMsg /\ hist.before # NoMsg)
        => hist.before.id < hist.returned.id

\* Two calls returned a frame: the first message, then the second.
C27_Witness ==
    /\ hist.lastop = "try_recv_frame"
    /\ hist.before # NoMsg
    /\ hist.before.id = 1
    /\ hist.returned.id = 2
    /\ hist.ret = hist.returned

\* C28: at most one message is sent with the closing flag set, and after
\* it the thread is at the check of the flag or has ended.
C28_OneSendAfterClose ==
    /\ hist.sent_closed <= 1
    /\ hist.sent_closed = 1 => rxpc \in {"loop", "done"}
    /\ (hist.sent_closed = 1 /\ rxpc = "loop") => is_closed

\* close() stored the flag while a screen was being received; the screen
\* was sent and the thread has ended.
C28_Witness ==
    /\ hist.sent_closed = 1
    /\ rxpc = "done"
    /\ handle.pc = "closed"

\* The place in the device's stream of the next byte it sends.
StreamPos(g) == (g.n - 1) * TxLen(g.format) + g.pos

\* The byte at place k of the device's stream.
StreamByte(k) ==
    DeviceByte([gen EXCEPT !.n = (k \div TxLen(gen.format)) + 1,
                           !.pos = k % TxLen(gen.format)])

\* C29: the bytes passed to handle_received_byte and the bytes waiting in
\* the read buffer are together the bytes read from the port, and the
\* byte passed last is the one at its place in the stream.
C29_EveryByteOnce ==
    /\ hist.nfed + (context.rx_buffer_count - context.rx_buffer_index)
         = StreamPos(gen)
    /\ context.rx_buffer_index <= context.rx_buffer_count
    /\ \A i \in (context.rx_buffer_index + 1)..context.rx_buffer_count :
         context.rx_buffer[i] = StreamByte(hist.nfed + i - context.rx_buffer_index - 1)
    /\ hist.nfed > 0 => hist.fed = StreamByte(hist.nfed - 1)

\* One read returned the last byte of the first transmission and the first
\* of the second; the screen was sent in between and the second byte was
\* the first that the next receive_screen call passed on.
C29_Witness ==
    /\ hist.sends = 1
    /\ hist.nfed = TxLen(gen.format) + 1
    /\ context.rx_buffer = <<TOTAL_BUFFERS_PER_FRAME, 0>>
    /\ context.rx_buffer_index = 2
    /\ rxpc = "receive"

====
